---- MODULE Spec2Model ----
(***************************************************************************)
(* Model of the BridgeVR concurrency core:                                 *)
(*   - TimeoutMap (bridgevr_common/src/timeout_map.rs), the timed buffer;  *)
(*   - the connection loop of the server (bridgevr_server/src/lib.rs).     *)
(* Time is a discrete counter standing for Instant::now(); the clock of    *)
(* the connection loop counts from the start of the current pass.          *)
(***************************************************************************)
EXTENDS Integers, Sequences, FiniteSets, TLC

\* ---------------------------------------------------------------- bounds
MaxInserts == 3
MaxTime == 1
MaxTimeout == 1

MaxCfgTimeout == 1      \* largest configured openvr.timeout_seconds
MaxClients == 2         \* clients that answer discovery
MaxSignals == 2         \* signals sent on the bus by the callback and the backend
MaxSlices == 1          \* largest video.frame_slice_count
MaxStopTime == 1        \* longest time a worker needs to stop once asked
MaxBeats == 1           \* heartbeat waits of one session that time out

MaxCalls == 2           \* calls of HmdDriverFactory
MaxUptime == 0          \* how long a loop whose deadline is out of reach is followed
MaxSends == 3           \* values sent into a channel

\* the code only compares the key of an entry with the key it is given
\* (timeout_map.rs line 63): two keys, the one asked for and another one,
\* show every case
Keys == {1, 2}
NoKey == 0

\* ------------------------------------------------------ program constants
TIMEOUT == 1                    \* const TIMEOUT: Duration = 1 s
SETTINGS_RETRY_SLEEP == 1       \* thread::sleep(Duration::from_secs(1))
STATISTICS_INTERVAL == 1        \* let statistics_interval = 1 s
BVR_MIN_VERSION_CLIENT == 1     \* smallest accepted client version

\* Instant and Duration have a width: on this build an Instant holds i64
\* seconds and a Duration u64 seconds, and Instant + Duration and
\* Instant - Duration panic when the result is no Instant.  The model keeps
\* the shape with a width of 21 bits, which the integers of TLC hold.  An
\* Instant counts from the start of the machine, so Instant::now() is above
\* zero when the driver is loaded (START_INSTANT); the clocks of the model
\* read 0 at that Instant.
INSTANT_MAX == 1048575
INSTANT_MIN == -1048576
DURATION_MAX == 2097151
START_INSTANT == 1

\* a port is a u16 (data.rs 132)
U16_MAX == 65535

VARIABLES
    \* TimeoutMap
    buffer,     \* VecDeque<TimedEntry>: sequence of [key, value, timestamp]
    timeout,    \* TimeoutMap.timeout
    now,        \* Instant::now()
    \* history of the calls made on the TimeoutMap
    inserted,   \* every entry ever inserted, in insertion order (value = position)
    handed,     \* what the calls have returned to the caller, in order
    last,       \* the last call: its arguments, the buffer before it, its result
    fifoOnly,   \* only insert and remove_any have been called so far
    \* connection loop (begin_server_loop)
    pc,         \* position of the connection/statistics thread
    time,       \* Instant::now() of the server
    deadline,   \* let mut deadline
    cfgTimeout, \* let timeout
    bus,        \* the mpsc channel of ShutdownSignal: signals sent, not yet received
    comp,       \* state of each pipeline component of the current attempt
    reqAt,      \* time of request_stop() on each component, -1 if not called
    settings,   \* the settings read by this attempt
    handshake,  \* client_handshake_packet of this attempt
    res,        \* result of try_connect
    backend,    \* OpenvrBackend: initialized for a client, holds the connection manager
    att,        \* history of the current attempt
    env,        \* history of the run: clients found, signals sent, how the loop ended
    \* channels (ring_channel)
    lvc,        \* a LatestValueChannel: slot, closed, its receivers, history
    kc,         \* a KeyedChannel over `buffer`: closed, its receiver, history
    \* driver entry point (HmdDriverFactory)
    sys         \* MAYBE_EMPTY_SYSTEM: created, receiver still stored, calls made

bufVars == <<buffer, timeout, now, inserted, handed, last, fifoOnly>>
orchVars == <<pc, time, deadline, cfgTimeout, bus, comp, reqAt, settings, handshake, res, backend, att, env>>
chanVars == <<lvc, kc>>
sysVars == <<sys>>
vars == <<bufVars, orchVars, chanVars, sysVars>>

\* ------------------------------------------------------------ TimeoutMap

Entry(k, v, t) == [key |-> k, value |-> v, timestamp |-> t]

\* the sequence s without its element at 0-based index i (VecDeque::remove, Some case)
RemoveIndexSwapBack(s, i) ==
    [j \in 1..(Len(s) - 1) |-> IF j = i + 1 THEN s[Len(s)] ELSE s[j]]

RemoveIndexTruncate(s, i) == SubSeq(s, 1, i)

RemoveIndex(s, i) ==
    [j \in 1..(Len(s) - 1) |-> IF j <= i THEN s[j] ELSE s[j + 1]]

NoCall == [op |-> "new", key |-> NoKey, pre |-> <<>>, at |-> 0,
           ret |-> <<>>, some |-> FALSE, panicked |-> FALSE]

\* VecDeque::pop_front: [some, entry, rest]
PopBack(buf) ==
    IF buf = <<>> THEN [some |-> FALSE, entry |-> Entry(NoKey, 0, 0), rest |-> buf]
    ELSE [some |-> TRUE, entry |-> buf[Len(buf)], rest |-> SubSeq(buf, 1, Len(buf) - 1)]

PopFront(buf) ==
    IF buf = <<>> THEN [some |-> FALSE, entry |-> Entry(NoKey, 0, 0), rest |-> buf]
    ELSE [some |-> TRUE, entry |-> Head(buf), rest |-> Tail(buf)]

\* remove_expired, lines 42-48: the 0-based indices selected by the filter,
\* in iteration order
IdxToBeRemoved(buf, maxTime) ==
    LET sel == {i \in 0..(Len(buf) - 1) : buf[i + 1].timestamp > maxTime}
        RECURSIVE Asc(_)
        Asc(S) == IF S = {} THEN <<>>
                  ELSE LET m == CHOOSE x \in S : \A y \in S : x <= y
                       IN <<m>> \o Asc(S \ {m})
    IN Asc(sel)

\* remove_expired, lines 50-53: remove the selected indices one after the
\* other from the live buffer; VecDeque::remove gives None for an index that
\* is out of range and the unwrap then panics
RECURSIVE RemoveEach(_, _, _)
RemoveEach(buf, idxs, acc) ==
    IF idxs = <<>> THEN [buffer |-> buf, values |-> acc, panicked |-> FALSE]
    ELSE IF Head(idxs) >= Len(buf)
         THEN [buffer |-> buf, values |-> acc, panicked |-> TRUE]
         ELSE RemoveEach(RemoveIndex(buf, Head(idxs)), Tail(idxs),
                         Append(acc, buf[Head(idxs) + 1].value))

\* Instant - Duration and Instant + Duration: [ok, at]; the operators of std
\* panic where ok is FALSE
InstantSub(t, d) == [ok |-> t - d >= INSTANT_MIN, at |-> t - d]

InstantAdd(t, d) == [ok |-> t + d <= INSTANT_MAX, at |-> t + d]

\* remove_expired: line 40 panics before the buffer is touched when
\* Instant::now() - self.timeout is no Instant
RemoveExpiredResult(buf, t, to) ==
    LET max_time == InstantSub(t, to) IN
    IF ~max_time.ok THEN [buffer |-> buf, values |-> <<>>, panicked |-> TRUE]
    ELSE RemoveEach(buf, IdxToBeRemoved(buf, max_time.at), <<>>)

\* remove, lines 60-64: 0-based index of the first entry with the key, -1 if none
FindKeyLast(buf, k) ==
    LET m == {i \in 0..(Len(buf) - 1) : buf[i + 1].key = k}
    IN IF m = {} THEN -1 ELSE CHOOSE x \in m : \A y \in m : y <= x

FindKey(buf, k) ==
    LET m == {i \in 0..(Len(buf) - 1) : buf[i + 1].key = k}
    IN IF m = {} THEN -1 ELSE CHOOSE x \in m : \A y \in m : x <= y

Handed(op, k, v) == [op |-> op, key |-> k, value |-> v]

RECURSIVE HandedAll(_, _)
HandedAll(op, vals) ==
    IF vals = <<>> THEN <<>>
    ELSE <<Handed(op, NoKey, Head(vals))>> \o HandedAll(op, Tail(vals))

\* ------------------------------------------------------- connection loop

CM == <<"connection_manager", 0>>
COMPOSITOR == <<"compositor", 0>>
Encoder(i) == <<"video_encoder", i>>
RECORDER == <<"game_audio_recorder", 0>>
PLAYER == <<"microphone_player", 0>>

Comps == {CM, COMPOSITOR, RECORDER, PLAYER} \cup {Encoder(i) : i \in 1..MaxSlices}

Max(a, b) == IF a >= b THEN a ELSE b

NoSettings ==
    [slices |-> 0, game_audio |-> FALSE, microphone |-> FALSE,
     next_sender_data_port |-> 0]

\* the values of connection.starting_data_port (a u16, data.rs 132) taken up:
\* the largest from which every slice gets its port without overflow, and
\* the largest u16, from which the first increment of line 165 overflows
StartingPorts == {U16_MAX - MaxSlices, U16_MAX}

\* line 165: next_sender_data_port += 1 on a u16.  At U16_MAX the add
\* overflows: a build with overflow checks panics, one without wraps to 0.
PortAdd(p) == [ok |-> p + 1 <= U16_MAX, port |-> (p + 1) % (U16_MAX + 1)]
NoHandshake == [version |-> -1, client |-> 0]
NoAttempt == [active |-> FALSE, rejected |-> FALSE, beats |-> 0, drainStart |-> -1,
              maxStop |-> 0, slow |-> 0, notice |-> "none", saved |-> "none",
              stale |-> FALSE, logged |-> FALSE]

\* the versions a client can offer: too old, or accepted
Versions == {BVR_MIN_VERSION_CLIENT - 1, BVR_MIN_VERSION_CLIENT}

\* line 259: deadline = Instant::now() + timeout
ResetDeadlineNoTimeout(t, to) == InstantAdd(t, 0)

ResetDeadline(t, to) == InstantAdd(t, to)

\* line 257: Instant::now() < deadline
DeadlineNotPassed(t, d) == t <= d

DeadlineNotReached(t, d) == t < d

\* the senders of the bus that are alive while the loop runs: the try_connect
\* closure owns shutdown_signal_sender (line 108 clones it), the EmptySystem and
\* the OpenvrBackend own one each (lines 306, 312)
Senders == {"try_connect", "EmptySystem", "OpenvrBackend"}

\* lines 328-330: MAYBE_EMPTY_SYSTEM is a lazy_static: before the first call
\* of the entry point nothing has been made, neither the bus nor the backend
SysNew ==
    [created |-> FALSE, receiver |-> FALSE, calls |-> 0, panicked |-> FALSE]

\* lines 291-316, 328-330: the first use of MAYBE_EMPTY_SYSTEM runs
\* create_empty_system, which stores the receiver of the bus as Some(..) if
\* it succeeds (made); later uses find what the calls before have left
Deref(made) ==
    IF sys.calls = 0
    THEN [created |-> made, receiver |-> made]
    ELSE [created |-> sys.created, receiver |-> sys.receiver]

SysStarted ==
    [created |-> TRUE, receiver |-> FALSE, calls |-> 1, panicked |-> FALSE]

\* SessionDescLoader::load (data.rs 422-437, called at lib.rs 296): the
\* record of session.json, which holds no handshake (also when the file is
\* missing or corrupt) or the handshake of the last client of an earlier
\* run, here client 0
LoadedSessions ==
    {NoHandshake, [version |-> BVR_MIN_VERSION_CLIENT, client |-> 0]}

\* the longest timeout whose deadline is still an Instant two seconds after
\* the start is not: line 50 takes it, line 259 only in the first second
LONG_TIMEOUT == INSTANT_MAX - START_INSTANT - 1

\* the values of openvr.timeout_seconds (a u64, data.rs 224) taken up: short
\* ones, LONG_TIMEOUT, the largest Instant and the longest Duration, with
\* both of which line 50 overflows
CfgTimeouts ==
    0..MaxCfgTimeout \cup {LONG_TIMEOUT, INSTANT_MAX, DURATION_MAX}

\* state at the start of the thread loop, begin_server_loop lines 47-50;
\* `absent` says that no client is around to answer search_client.
\* env.origin is the Instant at which the clock of the current pass read 0.
\* env.clients and env.signals count the clients found and the signals sent,
\* up to MaxClients and MaxSignals: a run that starts with them above 0 is
\* followed for fewer clients and signals.
OrchFieldsFrom(to, absent, clients, signals) ==
    /\ time = 0
    /\ cfgTimeout = to
    /\ deadline = InstantAdd(START_INSTANT, to).at - START_INSTANT
    /\ bus = <<>>
    /\ comp = [c \in Comps |-> "none"]
    /\ reqAt = [c \in Comps |-> -1]
    /\ settings = NoSettings
    /\ handshake = NoHandshake
    /\ res = "none"
    /\ backend = [init |-> FALSE, holdsCm |-> FALSE]
    /\ att = NoAttempt
    /\ \E loaded \in LoadedSessions :
         env = [clients |-> clients, signals |-> signals, attempts |-> 0,
                exitBy |-> "none",
                reconnecting |-> FALSE, absent |-> absent, senders |-> Senders,
                session |-> loaded, origin |-> START_INSTANT]

OrchFields(to, absent) == OrchFieldsFrom(to, absent, 0, 0)

\* the loop has been started by the first call of HmdDriverFactory, which took
\* the receiver out of the EmptySystem; line 50 has not panicked
OrchStart(to, absent) ==
    /\ OrchFields(to, absent)
    /\ InstantAdd(START_INSTANT, to).ok
    /\ pc = "loop"
    /\ sys = SysStarted

BusDisconnected == env.senders = {}

\* Receiver::recv_timeout and try_recv on the bus b (lines 212, 263): the
\* oldest signal if there is one; without one, Disconnected once every sender
\* is gone, otherwise nothing (Timeout, Empty)
RecvNewest(b) ==
    IF b # <<>> THEN [r |-> b[Len(b)], rest |-> SubSeq(b, 1, Len(b) - 1)]
    ELSE IF BusDisconnected THEN [r |-> "Disconnected", rest |-> b]
    ELSE [r |-> "Nothing", rest |-> b]

Recv(b) ==
    IF b # <<>> THEN [r |-> Head(b), rest |-> Tail(b)]
    ELSE IF BusDisconnected THEN [r |-> "Disconnected", rest |-> b]
    ELSE [r |-> "Nothing", rest |-> b]

\* lines 212-218: what the heartbeat loop makes of the result r of
\* recv_timeout: the signal it breaks with, or "continue"
OnRecvTimeoutIgnoreDisconnect(r) ==
    IF r \in {"ClientDisconnected", "BackendShutdown"} THEN r ELSE "continue"

OnRecvTimeoutEndsOnTimeout(r) ==
    IF r \in {"ClientDisconnected", "BackendShutdown"} THEN r
    ELSE "BackendShutdown"

OnRecvTimeout(r) ==
    IF r \in {"ClientDisconnected", "BackendShutdown"} THEN r
    ELSE IF r = "Disconnected" THEN "BackendShutdown"
    ELSE "continue"

\* line 260: Ok(ShutdownSignal::BackendShutdown) => break
BreaksLoopNever(r) == FALSE

BreaksLoop(r) == r = "BackendShutdown"

\* lines 262-266: the error branch breaks on what try_recv gave
ErrorBranchBreaksAlways(r) == TRUE

ErrorBranchBreaksOnDisconnected(r) == r = "Disconnected"

ErrorBranchBreaks(r) == r \in {"BackendShutdown", "Disconnected"}

\* the encoders of the first n slices, in the order of the vector
RECURSIVE Encoders(_, _)
Encoders(i, n) == IF i > n THEN <<>> ELSE <<Encoder(i)>> \o Encoders(i + 1, n)

Running(s, cm) == SelectSeq(s, LAMBDA c : cm[c] = "running")

\* lines 235-248: the components request_stop() is called on, in that order
StopTargetsNoEncoders(cm) ==
    Running(<<CM, COMPOSITOR, RECORDER, PLAYER>>, cm)

StopTargetsOnlyManager(cm) ==
    Running(<<CM>>, cm)

StopTargets(cm) ==
    Running(<<CM, COMPOSITOR>> \o Encoders(1, MaxSlices) \o <<RECORDER, PLAYER>>, cm)

\* the locals of try_connect that own a running component, in the order they
\* are dropped when it returns (reverse order of declaration; the elements of
\* a Vec in index order); the connection manager is an Arc and lives on while
\* the backend holds a clone of it
DropOrder(cm, held) ==
    Running(<<PLAYER, RECORDER>> \o Encoders(1, MaxSlices) \o <<COMPOSITOR>>
               \o (IF held THEN <<>> ELSE <<CM>>), cm)

\* line 67
VersionAcceptedAlways(v) == TRUE

VersionAccepted(v) == ~(v < BVR_MIN_VERSION_CLIENT)

\* return from try_connect with result r (line 250 and every `?`)
Return(r) ==
    /\ res' = r
    /\ pc' = "return"
    /\ UNCHANGED <<settings, handshake>>

\* the timeouts whose deadline a run reaches: those of Spec and, for the loop
\* that finds no client, one that a search that gives up does not use up
Short(to) == to <= MaxCfgTimeout + TIMEOUT

\* a deadline that the run cannot reach (a timeout that is not short) would
\* keep the loop going for ever: such a loop is followed up to MaxUptime
Followed ==
    \/ Short(cfgTimeout)
    \/ env.origin + time - START_INSTANT <= MaxUptime

\* line 257: while Instant::now() < deadline.  The clock of the model counts
\* from the start of the current pass of the loop, and the deadline with it;
\* env.origin keeps the Instant of that start for the add of line 259.  With a
\* short timeout that add stays as far below INSTANT_MAX
\* as the run is short, whatever the origin, and the origin is left alone.
LoopCheck ==
    /\ pc = "loop"
    /\ IF DeadlineNotReached(time, deadline)
       THEN /\ Followed
            /\ pc' = "settings"
            /\ time' = 0
            /\ deadline' = deadline - time
            /\ att' = NoAttempt
            /\ comp' = [c \in Comps |-> "none"]
            /\ reqAt' = [c \in Comps |-> -1]
            /\ settings' = NoSettings
            /\ handshake' = NoHandshake
            /\ res' = "none"
            /\ env' = [env EXCEPT !.attempts = IF @ < 2 THEN @ + 1 ELSE @,
                                  !.origin = IF Short(cfgTimeout)
                                             THEN @ ELSE @ + time]
       ELSE /\ pc' = "done"
            /\ env' = [env EXCEPT !.exitBy = "deadline"]
            /\ UNCHANGED <<time, deadline, att, comp, reqAt, settings, handshake, res>>
    /\ UNCHANGED <<bufVars, chanVars, sysVars>>
    /\ UNCHANGED <<cfgTimeout, bus, backend>>

\* go on inside try_connect
Goto(next) ==
    /\ pc' = next
    /\ UNCHANGED <<res, settings, handshake>>

\* get_settings() has read the settings file, as it is at this pass: the
\* attempt goes on with them and with next_sender_data_port at the starting
\* port (line 62; the receiver_data_port of line 61 is the same value and is
\* never changed)
SettingsRead ==
    /\ \E n \in 0..MaxSlices, ga \in BOOLEAN, mic \in BOOLEAN,
          port \in StartingPorts :
          settings' = [slices |-> n, game_audio |-> ga, microphone |-> mic,
                       next_sender_data_port |-> port]
    /\ pc' = "search"
    /\ UNCHANGED <<res, handshake>>

\* line 55: the first get_settings(); when it fails the thread goes to sleep
\* (line 58), holding no lock
GetSettings ==
    /\ pc = "settings"
    /\ \/ SettingsRead
       \/ Goto("settings_retry")
    /\ UNCHANGED <<bufVars, chanVars, sysVars>>
    /\ UNCHANGED <<time, deadline, cfgTimeout, bus, comp, reqAt, backend, att, env>>

\* lines 58-59: the sleep of one second is over, get_settings()? once more
GetSettingsRetry ==
    /\ pc = "settings_retry"
    /\ time' = time + SETTINGS_RETRY_SLEEP
    /\ \/ SettingsRead
       \/ Return("Err")
    /\ UNCHANGED <<bufVars, chanVars, sysVars>>
    /\ UNCHANGED <<deadline, cfgTimeout, bus, comp, reqAt, backend, att, env>>

\* lines 64-65: search_client(ip, TIMEOUT); a client answers within TIMEOUT or
\* the search gives up after TIMEOUT
SearchClient ==
    /\ pc = "search"
    /\ \/ /\ ~env.absent
          /\ env.clients < MaxClients
          /\ \E v \in Versions, d \in 0..TIMEOUT :
               /\ handshake' = [version |-> v, client |-> env.clients + 1]
               /\ time' = time + d
          /\ env' = [env EXCEPT !.clients = env.clients + 1, !.reconnecting = FALSE]
          /\ pc' = "version"
          /\ UNCHANGED <<res, settings>>
       \/ /\ time' = time + TIMEOUT
          /\ Return("Err")
          /\ UNCHANGED env
    /\ UNCHANGED <<bufVars, chanVars, sysVars>>
    /\ UNCHANGED <<deadline, cfgTimeout, bus, comp, reqAt, backend, att>>

\* lines 67-73
VersionCheck ==
    /\ pc = "version"
    /\ IF VersionAccepted(handshake.version)
       THEN /\ Goto("save")
            /\ UNCHANGED att
       ELSE /\ Return("Err")
            /\ att' = [att EXCEPT !.rejected = TRUE]
    /\ UNCHANGED <<bufVars, chanVars, sysVars>>
    /\ UNCHANGED <<time, deadline, cfgTimeout, bus, comp, reqAt, backend, env>>

\* lines 75-78: last_client_handshake_packet = Some(client_handshake_packet.clone())
StoredKeepsFirst(old, h) == IF old = NoHandshake THEN h ELSE old

Stored(old, h) == h

\* lines 75-83: the handshake goes to the session record (env.session, the
\* record of the SessionDescLoader, which outlives the attempt), the record is
\* saved and a failure of the save is only logged
SaveSession ==
    /\ pc = "save"
    /\ env' = [env EXCEPT !.session = Stored(@, handshake)]
    /\ att' = [att EXCEPT !.saved = "attempted"]
    /\ Goto("connect")
    /\ UNCHANGED <<bufVars, chanVars, sysVars>>
    /\ UNCHANGED <<time, deadline, cfgTimeout, bus, comp, reqAt, backend>>

\* lines 104-122: ConnectionManager::connect_to_client(..)?  The history notes
\* whether signals of earlier attempts are still on the bus at this point,
\* before the connection manager of this attempt exists; the note is kept
\* until the heartbeat loop is over
Connect ==
    /\ pc = "connect"
    /\ \/ /\ comp' = [comp EXCEPT ![CM] = "running"]
          /\ Goto("compositor")
       \/ /\ Return("Err")
          /\ UNCHANGED comp
    /\ att' = [att EXCEPT !.stale = (bus # <<>>)]
    /\ UNCHANGED <<bufVars, chanVars, sysVars>>
    /\ UNCHANGED <<time, deadline, cfgTimeout, bus, reqAt, backend, env>>

\* lines 134-143: Compositor::new(..)?
CompositorNew ==
    /\ pc = "compositor"
    /\ \/ /\ comp' = [comp EXCEPT ![COMPOSITOR] = "running"]
          /\ Goto("encoders")
       \/ /\ Return("Err")
          /\ UNCHANGED comp
    /\ UNCHANGED <<bufVars, chanVars, sysVars>>
    /\ UNCHANGED <<time, deadline, cfgTimeout, bus, reqAt, backend, att, env>>

\* the next slice without an encoder, 0 if every slice has one
NextSlice ==
    IF \E i \in 1..settings.slices : comp[Encoder(i)] = "none"
    THEN CHOOSE i \in 1..settings.slices :
            /\ comp[Encoder(i)] = "none"
            /\ \A j \in 1..(i - 1) : comp[Encoder(j)] # "none"
    ELSE 0

\* a panic inside try_connect: the thread unwinds, dropping the locals of
\* try_connect as a return does, and ends
Unwind ==
    /\ pc' = "unwind"
    /\ env' = [env EXCEPT !.exitBy = "panic"]
    /\ UNCHANGED <<res, settings, handshake>>

\* lines 147-166: one pass of the loop over the slices: VideoEncoder::new(..)?
\* is pushed onto video_encoders, then begin_send_buffers(..)?, then the port
\* is incremented (line 165).  When that add overflows, the build decides:
\* with overflow checks the thread panics, without them the port wraps.
EncoderNew ==
    /\ pc = "encoders"
    /\ IF NextSlice = 0
       THEN /\ Goto("game_audio")
            /\ UNCHANGED <<comp, env>>
       ELSE \/ /\ comp' = [comp EXCEPT ![Encoder(NextSlice)] = "running"]
               /\ LET next == PortAdd(settings.next_sender_data_port) IN
                    \/ /\ settings' = [settings EXCEPT
                                         !.next_sender_data_port = next.port]
                       /\ pc' = "encoders"
                       /\ UNCHANGED <<res, handshake, env>>
                    \/ /\ ~next.ok
                       /\ Unwind
            \/ /\ Return("Err")
               /\ UNCHANGED <<comp, env>>
            \/ /\ comp' = [comp EXCEPT ![Encoder(NextSlice)] = "running"]
               /\ Return("Err")
               /\ UNCHANGED env
    /\ UNCHANGED <<bufVars, chanVars, sysVars>>
    /\ UNCHANGED <<time, deadline, cfgTimeout, bus, reqAt, backend, att>>

\* lines 168-181: AudioRecorder::start_recording(..)?, begin_send_buffers(..)?
GameAudio ==
    /\ pc = "game_audio"
    /\ IF ~settings.game_audio
       THEN /\ Goto("microphone")
            /\ UNCHANGED comp
       ELSE \/ /\ comp' = [comp EXCEPT ![RECORDER] = "running"]
               /\ Goto("microphone")
            \/ /\ Return("Err")
               /\ UNCHANGED comp
            \/ /\ comp' = [comp EXCEPT ![RECORDER] = "running"]
               /\ Return("Err")
    /\ UNCHANGED <<bufVars, chanVars, sysVars>>
    /\ UNCHANGED <<time, deadline, cfgTimeout, bus, reqAt, backend, att, env>>

\* lines 183-197: begin_receive_indexed_buffers(..)?, AudioPlayer::start_playback(..)?
Microphone ==
    /\ pc = "microphone"
    /\ IF ~settings.microphone
       THEN /\ Goto("init_backend")
            /\ UNCHANGED comp
       ELSE \/ /\ comp' = [comp EXCEPT ![PLAYER] = "running"]
               /\ Goto("init_backend")
            \/ /\ Return("Err")
               /\ UNCHANGED comp
    /\ UNCHANGED <<bufVars, chanVars, sysVars>>
    /\ UNCHANGED <<time, deadline, cfgTimeout, bus, reqAt, backend, att, env>>

\* lines 199-206: initialize_for_client_or_request_restart(.., connection_manager.clone())?
\* the backend is given a clone of the Arc by value and may keep it, whether
\* it returns Ok or Err
InitBackend ==
    /\ pc = "init_backend"
    /\ \/ /\ \E keeps \in BOOLEAN : backend' = [init |-> TRUE, holdsCm |-> keeps]
          /\ att' = [att EXCEPT !.active = TRUE]
          /\ Goto("stats")
       \/ /\ \E keeps \in BOOLEAN : backend' = [init |-> FALSE, holdsCm |-> keeps]
          /\ Return("Err")
          /\ UNCHANGED att
    /\ UNCHANGED <<bufVars, chanVars, sysVars>>
    /\ UNCHANGED <<time, deadline, cfgTimeout, bus, comp, reqAt, env>>

\* line 210, the head of a pass of the heartbeat loop: log_statistics().
\* att.logged says that the statistics of the pass have been emitted.
LogStatistics ==
    /\ pc = "stats"
    /\ att' = [att EXCEPT !.logged = TRUE]
    /\ Goto("wait")
    /\ UNCHANGED <<bufVars, chanVars, sysVars>>
    /\ UNCHANGED <<time, deadline, cfgTimeout, bus, comp, reqAt, backend, env>>

\* lines 211-218, the rest of the pass: recv_timeout(statistics_interval),
\* which waits the whole interval when there is nothing to receive; a timeout
\* begins the next pass.  The loop has no end of its own: a session is
\* followed for MaxBeats waits that time out.
Heartbeat ==
    /\ pc = "wait"
    /\ LET got == Recv(bus) IN
       IF OnRecvTimeout(got.r) # "continue"
       THEN /\ res' = OnRecvTimeout(got.r)
            /\ bus' = got.rest
            /\ pc' = "notice"
            /\ att' = [att EXCEPT !.drainStart = time, !.beats = 0,
                                  !.logged = FALSE]
            /\ time' = time
       ELSE /\ att.beats < MaxBeats
            /\ time' = time + STATISTICS_INTERVAL
            /\ att' = [att EXCEPT !.beats = @ + 1, !.logged = FALSE]
            /\ pc' = "stats"
            /\ UNCHANGED <<res, bus>>
    /\ UNCHANGED <<bufVars, chanVars, sysVars>>
    /\ UNCHANGED <<deadline, cfgTimeout, comp, reqAt, settings, handshake, backend, env>>

\* lines 221-227: the shutdown notice, sent on BackendShutdown only; a failure
\* of the send is only logged
NoticeDueAlways(r) == TRUE

NoticeDue(r) == r = "BackendShutdown"

Notice ==
    /\ pc = "notice"
    /\ IF NoticeDue(res)
       THEN \E ok \in BOOLEAN :
              att' = [att EXCEPT !.notice = IF ok THEN "sent" ELSE "failed",
                                 !.stale = FALSE]
       ELSE att' = [att EXCEPT !.stale = FALSE]
    /\ pc' = "stop"
    /\ UNCHANGED <<bufVars, chanVars, sysVars>>
    /\ UNCHANGED <<time, deadline, cfgTimeout, bus, comp, reqAt, settings, handshake,
                   res, backend, env>>

\* lines 235-250: the request_stop() calls, none of which blocks, then `res`
RequestStop ==
    /\ pc = "stop"
    /\ reqAt' = [c \in Comps |->
                   IF \E i \in 1..Len(StopTargets(comp)) : StopTargets(comp)[i] = c
                   THEN time ELSE reqAt[c]]
    /\ Return(res)
    /\ UNCHANGED <<bufVars, chanVars, sysVars>>
    /\ UNCHANGED <<time, deadline, cfgTimeout, bus, comp, backend, att, env>>

\* the Drop of a component joins its thread, which needs some time d, at most
\* MaxStopTime, to stop once it is asked to: after request_stop() the Drop
\* waits for what is left of d, without it the Drop has to ask and wait d.
\* JoinTime is the time at which a Drop that begins at t is over.
JoinTime(c, d, t) ==
    IF reqAt[c] >= 0 THEN Max(t, reqAt[c] + d) ELSE t + d

\* the stop times ds entered into the history of the attempt
WithStops(a, ds) ==
    [a EXCEPT !.maxStop = IF \E i \in 1..Len(ds) : ds[i] > @
                          THEN CHOOSE m \in {ds[i] : i \in 1..Len(ds)} :
                                  \A i \in 1..Len(ds) : ds[i] <= m
                          ELSE @,
              !.slow = LET n == @ + Cardinality({i \in 1..Len(ds) : ds[i] > 0})
                       IN IF n > 2 THEN 2 ELSE n]

\* line 251 and every `?`: try_connect returns and its locals go out of
\* scope; those that own a running component are dropped one after the other
\* (comment at lines 229-233), each Drop waiting for its thread while the
\* other threads run.  One step is the Drop of one component; with the last
\* one gone try_connect has returned.
Drop ==
    /\ pc \in {"return", "unwind"}
    /\ LET q == DropOrder(comp, backend.holdsCm) IN
         /\ IF q = <<>>
            THEN /\ att' = [att EXCEPT !.stale = FALSE]
                 /\ UNCHANGED <<comp, time>>
            ELSE \E d \in 0..MaxStopTime :
                   /\ comp' = [comp EXCEPT ![Head(q)] = "released"]
                   /\ time' = JoinTime(Head(q), d, time)
                   /\ att' = [WithStops(att, <<d>>) EXCEPT !.stale = FALSE]
         /\ IF Len(q) <= 1
            THEN /\ settings' = NoSettings
                 /\ handshake' = NoHandshake
                 /\ pc' = IF pc = "unwind" THEN "panicked" ELSE "match"
            ELSE UNCHANGED <<settings, handshake, pc>>
    /\ UNCHANGED <<bufVars, chanVars, sysVars>>
    /\ UNCHANGED <<deadline, cfgTimeout, bus, reqAt, res, backend, env>>

\* lines 258-268: the match on the result of try_connect, with the try_recv
\* of the error branch.  The add of line 259 panics when the new deadline is
\* no Instant: the thread ends there, before line 269.
Match ==
    /\ pc = "match"
    /\ CASE res = "ClientDisconnected" ->
              LET reset == ResetDeadline(env.origin + time, cfgTimeout) IN
              /\ IF reset.ok
                 THEN /\ deadline' = reset.at - env.origin
                      /\ pc' = "deinit"
                      /\ env' = [env EXCEPT !.reconnecting = TRUE]
                 ELSE /\ pc' = "panicked"
                      /\ env' = [env EXCEPT !.exitBy = "panic"]
                      /\ UNCHANGED deadline
              /\ UNCHANGED bus
         [] res # "ClientDisconnected" /\ BreaksLoop(res) ->
              /\ pc' = "done"
              /\ env' = [env EXCEPT !.exitBy = "BackendShutdown"]
              /\ UNCHANGED <<bus, deadline>>
         [] OTHER ->
              LET got == Recv(bus) IN
              /\ bus' = got.rest
              /\ IF ErrorBranchBreaks(got.r)
                 THEN /\ pc' = "done"
                      /\ env' = [env EXCEPT !.exitBy = got.r]
                 ELSE /\ pc' = "deinit"
                      /\ env' = env
              /\ UNCHANGED deadline
    /\ UNCHANGED <<bufVars, chanVars, sysVars>>
    /\ UNCHANGED <<time, cfgTimeout, comp, reqAt, settings, handshake, res, backend, att>>

\* line 269: deinitialize_for_client(); the backend lets go of the connection
\* manager it was given, which drops it
Deinit ==
    /\ pc = "deinit"
    /\ IF backend.holdsCm /\ comp[CM] = "running"
       THEN \E d \in 0..MaxStopTime :
              /\ comp' = [comp EXCEPT ![CM] = "released"]
              /\ time' = JoinTime(CM, d, time)
              /\ att' = WithStops(att, <<d>>)
       ELSE UNCHANGED <<comp, time, att>>
    /\ backend' = [init |-> FALSE, holdsCm |-> FALSE]
    /\ pc' = "loop"
    /\ UNCHANGED <<bufVars, chanVars, sysVars>>
    /\ UNCHANGED <<deadline, cfgTimeout, bus, reqAt, settings, handshake, res, env>>

\* the process runs until a panic in the entry point aborts it
ProcessAlive == ~sys.panicked

\* the bus and the backend are made inside the first call of the entry point
\* (lazy_static, lines 328-330 and 300), which takes the Receiver in the same
\* call (line 339) and hands it to the closure of the connection thread: it
\* is dropped with the closure when the spawn fails and when the thread ends,
\* by leaving the loop or by a panic.  A send on a bus without Receiver
\* returns Err, which both senders discard: nothing is queued.
ReceiverAlive == pc \notin {"unborn", "done", "panicked", "aborted"}

\* lines 115-119: the message callback of the connection manager sends
\* ClientDisconnected; it can run as long as the connection manager lives
ClientDisconnectedSent ==
    /\ ProcessAlive
    /\ ReceiverAlive
    /\ comp[CM] = "running"
    /\ env.senders # {}
    /\ env.signals < MaxSignals
    /\ bus' = Append(bus, "ClientDisconnected")
    /\ env' = [env EXCEPT !.signals = env.signals + 1]
    /\ UNCHANGED <<bufVars, chanVars, sysVars>>
    /\ UNCHANGED <<pc, time, deadline, cfgTimeout, comp, reqAt, settings, handshake, res, backend, att>>

\* lines 302-307: the OpenvrBackend owns a sender and sends BackendShutdown
\* when the runtime shuts the driver down
BackendShutdownSent ==
    /\ ProcessAlive
    /\ sys.created
    /\ ReceiverAlive
    /\ env.senders # {}
    /\ env.signals < MaxSignals
    /\ bus' = Append(bus, "BackendShutdown")
    /\ env' = [env EXCEPT !.signals = env.signals + 1]
    /\ UNCHANGED <<bufVars, chanVars, sysVars>>
    /\ UNCHANGED <<pc, time, deadline, cfgTimeout, comp, reqAt, settings, handshake, res, backend, att>>

\* ------------------------------------------------------ LatestValueChannel
\* (ring_channel is not among the sources: modelled from its contract)

NoValue == 0
Receivers == {1, 2}

Idle == [st |-> "idle", until |-> 0, since |-> 0, ret |-> "none", value |-> NoValue,
         waited |-> 0]

LvNew == [slot |-> NoValue, closed |-> FALSE, sent |-> 0,
          rx |-> [r \in Receivers |-> Idle], got |-> <<>>]

\* a KeyedChannel: its TimeoutMap is `buffer`; `sent` counts the values sent,
\* `pending` lists what was sent and not received, `last` is the last recv call
NoRecv == [key |-> NoKey, at |-> 0, pending |-> <<>>, immediate |-> "none",
           value |-> NoValue, after |-> <<>>]

KcNew == [closed |-> FALSE, panicked |-> FALSE, sent |-> 0, rx |-> Idle,
          rxKey |-> NoKey, pending |-> <<>>, last |-> NoRecv]

\* no channel has been made
ChanOff ==
    /\ lvc = LvNew
    /\ kc = KcNew

\* send(value) replaces any value not yet consumed
KeepUnconsumed(slot, v) == IF slot = NoValue THEN v ELSE slot

Store(slot, v) == v

\* what a receiver finds: the channel closed, a value, or nothing
LookValueFirst(ch) ==
    IF ch.slot # NoValue THEN "value"
    ELSE IF ch.closed THEN "closed"
    ELSE "empty"

Look(ch) ==
    IF ch.closed THEN "closed"
    ELSE IF ch.slot # NoValue THEN "value"
    ELSE "empty"

\* the receiver r returns at time t with result ret; a value leaves the slot
Returned(ch, r, t, ret) ==
    [ch EXCEPT !.rx[r] = [st |-> "idle", until |-> @.until, since |-> @.since,
                          ret |-> ret,
                          value |-> IF ret = "value" THEN ch.slot ELSE NoValue,
                          waited |-> t - @.since],
               !.slot = IF ret = "value" THEN NoValue ELSE @,
               !.got = IF ret = "value"
                       THEN Append(@, [value |-> ch.slot, latest |-> ch.sent, by |-> r])
                       ELSE @]

\* send(value): the values sent are 1, 2, ...
LvSend ==
    /\ lvc.sent < MaxSends
    /\ lvc' = [lvc EXCEPT !.sent = @ + 1, !.slot = Store(@, lvc.sent + 1)]
    /\ UNCHANGED <<bufVars, orchVars, kc, sysVars>>

\* recv(timeout) is called by the receiver r: it returns at once when the
\* channel is closed or holds a value, and blocks otherwise
LvRecv ==
    \E r \in Receivers, to \in 0..MaxTimeout :
        /\ lvc.rx[r].st = "idle"
        /\ now + to <= MaxTime
        /\ LET called == [lvc EXCEPT !.rx[r] = [@ EXCEPT !.since = now,
                                                         !.until = now + to]] IN
           IF Look(lvc) # "empty" THEN lvc' = Returned(called, r, now, Look(lvc))
           ELSE IF to = 0 THEN lvc' = Returned(called, r, now, "timeout")
           ELSE lvc' = [called EXCEPT !.rx[r].st = "blocked",
                                      !.rx[r].ret = "none",
                                      !.rx[r].value = NoValue,
                                      !.rx[r].waited = 0]
        /\ UNCHANGED <<bufVars, orchVars, kc, sysVars>>

\* a blocked receiver wakes: on close, on a value, or when its timeout is over
\* receiver r is blocked and can wake: there is a value, the channel is
\* closed or its timeout is over
LvDueNoTimeout(r) ==
    /\ lvc.rx[r].st = "blocked"
    /\ Look(lvc) # "empty"

LvDue(r) ==
    /\ lvc.rx[r].st = "blocked"
    /\ (Look(lvc) # "empty" \/ now >= lvc.rx[r].until)

LvWake ==
    \E r \in Receivers :
        /\ LvDue(r)
        /\ lvc' = Returned(lvc, r, now,
                           IF Look(lvc) # "empty" THEN Look(lvc) ELSE "timeout")
        /\ UNCHANGED <<bufVars, orchVars, kc, sysVars>>

\* close()
LvClose ==
    /\ ~lvc.closed
    /\ lvc' = [lvc EXCEPT !.closed = TRUE]
    /\ UNCHANGED <<bufVars, orchVars, kc, sysVars>>

\* a blocked receiver that can wake does so before the clock moves on
LvTick ==
    /\ now < MaxTime
    /\ \A r \in Receivers : ~LvDue(r)
    /\ now' = now + 1
    /\ UNCHANGED <<buffer, timeout, inserted, handed, last, fifoOnly>>
    /\ UNCHANGED <<orchVars, chanVars, sysVars>>

\* ------------------------------------------------------------ KeyedChannel
\* (modelled from its contract, over the TimeoutMap of timeout_map.rs)

\* the sweep every access to the channel begins with: TimeoutMap::remove_expired
Sweep(buf) == RemoveExpiredResult(buf, now, timeout)

\* the pending entries without the one that carries value v
Without(p, v) == SelectSeq(p, LAMBDA e : e.value # v)

\* send(key, value): sweep, then TimeoutMap::insert
KcSend ==
    /\ ~kc.panicked
    /\ kc.sent < MaxSends
    /\ \E k \in Keys :
        LET v == kc.sent + 1 IN
        IF Sweep(buffer).panicked
        THEN /\ buffer' = Sweep(buffer).buffer
             /\ kc' = [kc EXCEPT !.panicked = TRUE, !.sent = v]
        ELSE /\ buffer' = Append(Sweep(buffer).buffer, Entry(k, v, now))
             /\ kc' = [kc EXCEPT !.sent = v,
                                 !.pending = Append(@, Entry(k, v, now))]
    /\ UNCHANGED <<timeout, now, inserted, handed, last, fifoOnly>>
    /\ UNCHANGED <<orchVars, lvc, sysVars>>

\* one look of the receiver at the channel, at the call (first = TRUE) or at a
\* wake-up: closed, else sweep and TimeoutMap::remove(key); it returns, blocks
\* (or stays blocked) or, its timeout over, returns timeout
KcLook(k, until, first) ==
    LET swept == Sweep(buffer)
        idx == FindKey(swept.buffer, k)
        ret == IF kc.closed THEN "closed"
               ELSE IF swept.panicked THEN "panicked"
               ELSE IF idx >= 0 THEN "value"
               ELSE IF now >= until THEN "timeout"
               ELSE "blocked"
        val == IF ret = "value" THEN swept.buffer[idx + 1].value ELSE NoValue
        left == IF kc.closed THEN buffer
                ELSE IF ret = "value" THEN RemoveIndex(swept.buffer, idx)
                ELSE swept.buffer
    IN
    /\ buffer' = left
    /\ kc' = [kc EXCEPT
                !.panicked = (ret = "panicked"),
                !.rxKey = k,
                !.rx = [st |-> IF ret \in {"blocked", "panicked"} THEN ret ELSE "idle",
                        until |-> until,
                        since |-> IF first THEN now ELSE @.since,
                        ret |-> IF ret \in {"blocked", "panicked"} THEN "none" ELSE ret,
                        value |-> val,
                        waited |-> IF first THEN 0 ELSE now - @.since],
                !.pending = IF ret = "value" THEN Without(@, val) ELSE @,
                !.last = IF first
                         THEN [key |-> k, at |-> now, pending |-> kc.pending,
                               immediate |-> ret, value |-> val, after |-> left]
                         ELSE @]

\* recv(key, timeout) is called
KcRecv ==
    /\ ~kc.panicked
    /\ kc.rx.st = "idle"
    /\ \E k \in Keys, to \in 0..MaxTimeout :
        /\ now + to <= MaxTime
        /\ KcLook(k, now + to, TRUE)
    /\ UNCHANGED <<timeout, now, inserted, handed, last, fifoOnly>>
    /\ UNCHANGED <<orchVars, lvc, sysVars>>

\* the blocked receiver can wake: the channel is closed, an entry with its key
\* is there, or its timeout is over
KcDue ==
    /\ kc.rx.st = "blocked"
    /\ \/ kc.closed
       \/ FindKey(buffer, kc.rxKey) >= 0
       \/ now >= kc.rx.until

KcWake ==
    /\ ~kc.panicked
    /\ KcDue
    /\ KcLook(kc.rxKey, kc.rx.until, FALSE)
    /\ UNCHANGED <<timeout, now, inserted, handed, last, fifoOnly>>
    /\ UNCHANGED <<orchVars, lvc, sysVars>>

KcClose ==
    /\ ~kc.panicked
    /\ ~kc.closed
    /\ kc' = [kc EXCEPT !.closed = TRUE]
    /\ UNCHANGED <<bufVars, orchVars, lvc, sysVars>>

KcTick ==
    /\ ~kc.panicked
    /\ now < MaxTime
    /\ ~KcDue
    /\ now' = now + 1
    /\ UNCHANGED <<buffer, timeout, inserted, handed, last, fifoOnly>>
    /\ UNCHANGED <<orchVars, chanVars, sysVars>>

BufStart(to) ==
    /\ buffer = <<>>
    /\ timeout = to
    /\ now = 0
    /\ inserted = <<>>
    /\ handed = <<>>
    /\ last = NoCall
    /\ fifoOnly = TRUE

\* the timeouts a TimeoutMap is made with: short ones and the longest Duration
Timeouts == 0..MaxTimeout \cup {DURATION_MAX}

BufInit ==
    /\ \E to \in Timeouts : BufStart(to)
    /\ OrchStart(TIMEOUT, FALSE)
    /\ ChanOff

\* the clock moves on between two calls
Tick ==
    /\ ~last.panicked
    /\ now < MaxTime
    /\ now' = now + 1
    /\ UNCHANGED <<buffer, timeout, inserted, handed, last, fifoOnly>>
    /\ UNCHANGED <<orchVars, chanVars, sysVars>>

Insert ==
    /\ ~last.panicked
    /\ Len(inserted) < MaxInserts
    /\ \E k \in Keys :
        LET e == Entry(k, Len(inserted) + 1, now) IN
        /\ buffer' = Append(buffer, e)
        /\ inserted' = Append(inserted, e)
        /\ last' = [op |-> "insert", key |-> k, pre |-> buffer, at |-> now,
                    ret |-> <<>>, some |-> FALSE, panicked |-> FALSE]
    /\ fifoOnly' = fifoOnly
    /\ UNCHANGED <<timeout, now, handed>>
    /\ UNCHANGED <<orchVars, chanVars, sysVars>>

RemoveAny ==
    /\ ~last.panicked
    /\ LET r == PopFront(buffer) IN
        /\ buffer' = r.rest
        /\ handed' = IF r.some
                     THEN Append(handed, Handed("remove_any", r.entry.key, r.entry.value))
                     ELSE handed
        /\ last' = [op |-> "remove_any", key |-> IF r.some THEN r.entry.key ELSE NoKey,
                    pre |-> buffer, at |-> now,
                    ret |-> IF r.some THEN <<r.entry.value>> ELSE <<>>,
                    some |-> r.some, panicked |-> FALSE]
    /\ fifoOnly' = fifoOnly
    /\ UNCHANGED <<timeout, now, inserted>>
    /\ UNCHANGED <<orchVars, chanVars, sysVars>>

RemoveExpired ==
    /\ ~last.panicked
    /\ LET r == RemoveExpiredResult(buffer, now, timeout) IN
        /\ buffer' = r.buffer
        \* a panic unwinds through collect(): the values taken out so far are dropped
        /\ handed' = IF r.panicked THEN handed
                     ELSE handed \o HandedAll("remove_expired", r.values)
        /\ last' = [op |-> "remove_expired", key |-> NoKey, pre |-> buffer, at |-> now,
                    ret |-> IF r.panicked THEN <<>> ELSE r.values,
                    some |-> ~r.panicked, panicked |-> r.panicked]
    /\ fifoOnly' = FALSE
    /\ UNCHANGED <<timeout, now, inserted>>
    /\ UNCHANGED <<orchVars, chanVars, sysVars>>

Remove ==
    /\ ~last.panicked
    /\ \E k \in Keys :
        LET idx == FindKey(buffer, k) IN
        /\ buffer' = IF idx >= 0 THEN RemoveIndex(buffer, idx) ELSE buffer
        /\ handed' = IF idx >= 0
                     THEN Append(handed, Handed("remove", k, buffer[idx + 1].value))
                     ELSE handed
        /\ last' = [op |-> "remove", key |-> k, pre |-> buffer, at |-> now,
                    ret |-> IF idx >= 0 THEN <<buffer[idx + 1].value>> ELSE <<>>,
                    some |-> idx >= 0, panicked |-> FALSE]
    /\ fifoOnly' = FALSE
    /\ UNCHANGED <<timeout, now, inserted>>
    /\ UNCHANGED <<orchVars, chanVars, sysVars>>

BufNext == Tick \/ Insert \/ RemoveAny \/ RemoveExpired \/ Remove

SpecBuffer == BufInit /\ [][BufNext]_vars

OrchInit ==
    /\ \E to \in 0..MaxCfgTimeout : OrchStart(to, FALSE)
    /\ BufStart(0)
    /\ ChanOff

OrchNext ==
    \/ LoopCheck \/ GetSettings \/ GetSettingsRetry \/ SearchClient \/ VersionCheck \/ SaveSession
    \/ Connect \/ CompositorNew \/ EncoderNew \/ GameAudio \/ Microphone
    \/ InitBackend \/ LogStatistics \/ Heartbeat \/ Notice \/ RequestStop \/ Drop \/ Match \/ Deinit
    \/ ClientDisconnectedSent \/ BackendShutdownSent

Spec == OrchInit /\ [][OrchNext]_vars

\* the loop with the longest timeout of the bounds or with LONG_TIMEOUT,
\* with which the add of line 259 overflows once the clock has moved by two
ReconnectInit ==
    /\ \E to \in {MaxCfgTimeout, LONG_TIMEOUT} : OrchStart(to, FALSE)
    /\ BufStart(0)
    /\ ChanOff

SpecReconnect == ReconnectInit /\ [][OrchNext]_vars

\* every sender of the bus is dropped.  begin_server_loop keeps one in the
\* try_connect closure for as long as the loop runs, so that this is no step
\* of Spec; SpecBusLoss has it, to show what lines 214-216 and 263 make of a
\* disconnected bus
ProducersDropped ==
    /\ pc # "done"
    /\ env.senders # {}
    /\ env' = [env EXCEPT !.senders = {}]
    /\ UNCHANGED <<bufVars, chanVars, sysVars>>
    /\ UNCHANGED <<pc, time, deadline, cfgTimeout, bus, comp, reqAt, settings, handshake,
                   res, backend, att>>

BusLossNext ==
    \/ LoopCheck \/ GetSettings \/ GetSettingsRetry \/ SearchClient \/ VersionCheck \/ SaveSession
    \/ Connect \/ CompositorNew \/ EncoderNew \/ GameAudio \/ Microphone
    \/ InitBackend \/ LogStatistics \/ Heartbeat \/ Notice \/ RequestStop \/ Drop \/ Match \/ Deinit
    \/ ProducersDropped

\* the loop whose bus loses its producers before any of them has sent a signal
SpecBusLoss == OrchInit /\ [][BusLossNext]_vars

\* the loop where no client is around: search_client gives up every time, so
\* that try_connect never gets past it; the timeouts include one that a
\* search that gives up does not use up
NoClientInit ==
    /\ \E to \in 0..(MaxCfgTimeout + TIMEOUT) : OrchStart(to, TRUE)
    /\ BufStart(0)
    /\ ChanOff

\* the steps of the thread that can be reached without a client
DiscoveryStep ==
    \/ LoopCheck \/ GetSettings \/ GetSettingsRetry \/ SearchClient \/ Drop \/ Match \/ Deinit

NoClientNext ==
    \/ LoopCheck \/ GetSettings \/ GetSettingsRetry \/ SearchClient \/ Drop \/ Match \/ Deinit
    \/ BackendShutdownSent

\* the thread is scheduled: it takes its next step whenever it has one
SpecNoClient == NoClientInit /\ [][NoClientNext]_vars /\ WF_vars(DiscoveryStep)

\* the top of the loop (line 257) after a session that ClientDisconnected has
\* ended (line 259 has reset the deadline, then line 269 has run and has
\* taken the time the connection manager needed to stop): the timeout is
\* not zero, or the loop would not have run (lines 50, 257); the client may
\* have gone away for good or come back; with `stale` the connection manager
\* had sent ClientDisconnected twice (lines 115-119) and the second one is
\* still on the bus.  One more signal is followed from this state on.
AfterSessionInit ==
    /\ \E to \in 1..MaxCfgTimeout, stale \in BOOLEAN, d \in 0..MaxStopTime :
          /\ time = d
          /\ att = WithStops([NoAttempt EXCEPT !.active = TRUE, !.drainStart = 0,
                                               !.saved = "attempted"], <<d>>)
          /\ cfgTimeout = to
          /\ deadline = ResetDeadline(START_INSTANT, to).at - START_INSTANT
          /\ bus = IF stale THEN <<"ClientDisconnected">> ELSE <<>>
    /\ pc = "loop"
    /\ sys = SysStarted
    /\ comp = [c \in Comps |->
                 IF c \in {CM, COMPOSITOR} THEN "released" ELSE "none"]
    /\ reqAt = [c \in Comps |-> IF c \in {CM, COMPOSITOR} THEN 0 ELSE -1]
    /\ settings = NoSettings
    /\ handshake = NoHandshake
    /\ res = "ClientDisconnected"
    /\ backend = [init |-> FALSE, holdsCm |-> FALSE]
    /\ \E gone \in BOOLEAN :
         env = [clients |-> 1, signals |-> MaxSignals - 1, attempts |-> 1,
                exitBy |-> "none",
                reconnecting |-> TRUE, absent |-> gone, senders |-> Senders,
                session |-> [version |-> BVR_MIN_VERSION_CLIENT, client |-> 1],
                origin |-> START_INSTANT]
    /\ BufStart(0)
    /\ ChanOff

\* the steps of the connection thread
ThreadStep ==
    \/ LoopCheck \/ GetSettings \/ GetSettingsRetry \/ SearchClient \/ VersionCheck \/ SaveSession
    \/ Connect \/ CompositorNew \/ EncoderNew \/ GameAudio \/ Microphone
    \/ InitBackend \/ LogStatistics \/ Heartbeat \/ Notice \/ RequestStop \/ Drop \/ Match \/ Deinit

\* the loop from the end of a session on; the thread is scheduled
SpecAfterSession ==
    AfterSessionInit /\ [][OrchNext]_vars /\ WF_vars(ThreadStep)

\* a LatestValueChannel with its producer, its receivers and the clock
LvInit ==
    /\ BufStart(0)
    /\ OrchStart(TIMEOUT, FALSE)
    /\ ChanOff

LvNext == LvSend \/ LvRecv \/ LvWake \/ LvClose \/ LvTick

\* receivers run and the clock moves
SpecLatest == LvInit /\ [][LvNext]_vars /\ WF_vars(LvWake) /\ WF_vars(LvTick)

\* a KeyedChannel with its producer, its receiver and the clock; line 185 of
\* lib.rs makes it with a timeout that is not zero
KcInit ==
    /\ \E to \in 1..MaxTimeout : BufStart(to)
    /\ OrchStart(TIMEOUT, FALSE)
    /\ ChanOff

KcNext == KcSend \/ KcRecv \/ KcWake \/ KcClose \/ KcTick

SpecKeyed == KcInit /\ [][KcNext]_vars /\ WF_vars(KcWake) /\ WF_vars(KcTick)

\* ------------------------------------------------------ HmdDriverFactory

\* Option::take on the stored receiver (line 339): what it gives and what it
\* leaves behind
Take(opt) == [got |-> opt, left |-> FALSE]

\* lines 321-365: one call of the entry point.  Without an EmptySystem it
\* returns null; with one it takes the receiver, unwraps it and calls
\* begin_server_loop, which computes the deadline (line 50, an add that
\* panics when the deadline is no Instant) and spawns the connection thread
\* or fails to.  A panic in this extern "C" function aborts the process: the
\* connection thread, wherever it was, is gone with it (pc = "aborted").
HmdDriverFactory ==
    /\ ~sys.panicked
    /\ sys.calls < MaxCalls
    /\ \E made \in BOOLEAN :
         LET system == Deref(made)
             taken == Take(system.receiver)
             called == [sys EXCEPT !.calls = @ + 1,
                                   !.created = system.created,
                                   !.receiver = system.receiver]
         IN  IF ~system.created
             THEN /\ sys' = called
                  /\ UNCHANGED <<pc, deadline>>
             ELSE IF ~taken.got
             THEN /\ sys' = [called EXCEPT !.panicked = TRUE]
                  /\ pc' = "aborted"
                  /\ UNCHANGED deadline
             ELSE IF ~InstantAdd(env.origin + time, cfgTimeout).ok
             THEN /\ sys' = [called EXCEPT !.panicked = TRUE,
                                           !.receiver = taken.left]
                  /\ pc' = "aborted"
                  /\ UNCHANGED deadline
             ELSE /\ sys' = [called EXCEPT !.receiver = taken.left]
                  /\ deadline' = InstantAdd(env.origin + time, cfgTimeout).at
                                    - env.origin
                  /\ \E spawned \in BOOLEAN :
                       pc' = IF spawned THEN "loop" ELSE pc
    /\ UNCHANGED <<bufVars, chanVars>>
    /\ UNCHANGED <<time, cfgTimeout, bus, comp, reqAt, settings, handshake,
                   res, backend, att, env>>

\* the driver is loaded: no call of the entry point yet, the connection
\* thread does not exist
FactoryInit ==
    /\ \E to \in CfgTimeouts : OrchFields(to, TRUE)
    /\ sys = SysNew
    /\ pc = "unborn"
    /\ BufStart(0)
    /\ ChanOff

\* the runtime calls the entry point, the connection thread runs once spawned
\* (here without a client), the backend can send BackendShutdown
FactoryNext ==
    \/ HmdDriverFactory
    \/ LoopCheck \/ GetSettings \/ GetSettingsRetry \/ SearchClient \/ Drop \/ Match \/ Deinit
    \/ BackendShutdownSent

SpecFactory == FactoryInit /\ [][FactoryNext]_vars

\* the blocking operations, each on its own: the connection loop with the
\* recv_timeout on the bus and the search for a client, a LatestValueChannel
\* with its receivers, or a KeyedChannel with its receiver
OrchIdle == pc = "loop" /\ env.attempts = 0 /\ env.signals = MaxSignals - 1

\* the channels as the blocking calls are followed on them: two more values
\* are sent
LvStart == [LvNew EXCEPT !.sent = MaxSends - 2]

KcStart == [KcNew EXCEPT !.sent = MaxSends - 2]

LvIdle == lvc = LvStart

KcIdle == kc = KcStart /\ buffer = <<>>

\* the loop starts with the default timeout and is followed for one client
\* and one signal; the TimeoutMap of a KeyedChannel has a timeout that is not
\* zero, a LatestValueChannel has no TimeoutMap (timeout 0)
BlockingInit ==
    /\ \E to \in 0..MaxTimeout : BufStart(to)
    /\ OrchFieldsFrom(TIMEOUT, FALSE, MaxClients - 1, MaxSignals - 1)
    /\ pc = "loop"
    /\ sys = SysStarted
    /\ lvc = LvStart
    /\ kc = KcStart

BlockingNext ==
    \/ LvIdle /\ KcIdle /\ now = 0 /\ timeout = 0 /\ OrchNext
    \/ OrchIdle /\ KcIdle /\ timeout = 0 /\ LvNext
    \/ OrchIdle /\ LvIdle /\ timeout > 0 /\ KcNext

\* the steps that end a blocking call or lead to its end: the connection
\* thread runs, the clock of a channel moves on, a receiver that is due wakes
BlockingStep ==
    \/ LvIdle /\ KcIdle /\ now = 0 /\ timeout = 0 /\ ThreadStep
    \/ OrchIdle /\ KcIdle /\ timeout = 0 /\ (LvWake \/ LvTick)
    \/ OrchIdle /\ LvIdle /\ timeout > 0 /\ (KcWake \/ KcTick)

\* threads are scheduled and time passes
SpecBlocking == BlockingInit /\ [][BlockingNext]_vars /\ WF_vars(BlockingStep)

\* ================================================================ claims
\* ------------------------------------------------ TimeoutMap (SpecBuffer)

\* age, at the time of the last call, of an entry with the given timestamp
AgeAtCall(ts) == last.at - ts

SweepReturned == last.op = "remove_expired" /\ ~last.panicked

\* how often value v occurs in a sequence of records with a value field
Occurrences(s, v) == Cardinality({i \in 1..Len(s) : s[i].value = v})

\* C1: remove_expired never returns an entry that was inserted less than
\* `timeout` ago: every value a sweep returns belongs to an entry whose age at
\* the time of the sweep is at least the timeout.
C1_SweepReturnsOnlyExpired ==
    SweepReturned =>
        \A i \in 1..Len(last.ret) :
            ~(AgeAtCall(inserted[last.ret[i]].timestamp) < timeout)

\* C2: remove_expired returns every entry whose age exceeds `timeout`: after a
\* sweep no entry older than the timeout is left in the buffer and each such
\* entry's value is in the returned list.
C2_SweepReturnsEveryExpired ==
    SweepReturned =>
        /\ \A i \in 1..Len(buffer) : ~(AgeAtCall(buffer[i].timestamp) > timeout)
        /\ \A i \in 1..Len(last.pre) :
              AgeAtCall(last.pre[i].timestamp) > timeout =>
                  \E j \in 1..Len(last.ret) : last.ret[j] = last.pre[i].value

\* C3: no entry is ever lost: every entry that was inserted is either still in
\* the buffer or was handed back exactly once by remove_any, remove or
\* remove_expired.
C3_NoEntryLost ==
    \A v \in 1..Len(inserted) :
        Occurrences(buffer, v) + Occurrences(handed, v) = 1

\* C4: when only insert and remove_any have been called, remove_any has
\* returned the (key, value) pairs in exactly the order of their insertion,
\* whatever the keys, and it returns nothing on an empty buffer.
C4_RemoveAnyIsFifo ==
    fifoOnly =>
        /\ Len(handed) <= Len(inserted)
        /\ \A i \in 1..Len(handed) :
              /\ handed[i].key = inserted[i].key
              /\ handed[i].value = inserted[i].value
        /\ last.op = "remove_any" => (last.some <=> last.pre # <<>>)
        /\ (last.op = "remove_any" /\ last.pre = <<>>) =>
              (last.ret = <<>> /\ buffer = <<>>)

\* inserts with keys out of order were all taken back by remove_any, and a
\* further remove_any found the buffer empty
C4_Witness ==
    /\ fifoOnly
    /\ Len(handed) >= 2
    /\ handed[1].key > handed[2].key
    /\ Len(handed) = Len(inserted)
    /\ last.op = "remove_any"
    /\ ~last.some

\* C5: remove(key) removes and returns exactly one entry, the oldest one with
\* that key; repeated calls return entries of the same key oldest first; it
\* returns None and changes nothing when no entry has the key.
C5_RemoveOldestMatch ==
    /\ last.op = "remove" =>
         LET m == {i \in 1..Len(last.pre) : last.pre[i].key = last.key} IN
         IF m = {}
         THEN ~last.some /\ last.ret = <<>> /\ buffer = last.pre
         ELSE LET o == CHOOSE x \in m : \A y \in m : x <= y IN
              /\ last.some
              /\ last.ret = <<last.pre[o].value>>
              /\ Len(buffer) = Len(last.pre) - 1
              /\ \A j \in 1..Len(buffer) :
                    buffer[j] = IF j < o THEN last.pre[j] ELSE last.pre[j + 1]
    /\ \A i, j \in 1..Len(handed) :
         (i < j /\ handed[i].op = "remove" /\ handed[j].op = "remove"
                /\ handed[i].key = handed[j].key) =>
             handed[i].value < handed[j].value

\* two entries with the same key behind an entry with another key: the second
\* remove(key) in a row has just returned the younger duplicate
C5_Witness ==
    /\ last.op = "remove"
    /\ last.some
    /\ Len(last.pre) >= 2
    /\ last.pre[1].key # last.key
    /\ Len(handed) >= 2
    /\ handed[Len(handed) - 1].op = "remove"
    /\ handed[Len(handed) - 1].key = last.key
    /\ handed[Len(handed)].op = "remove"
    /\ handed[Len(handed)].value = last.ret[1]

\* ------------------------------------------------- connection loop (Spec)

Started == {c \in Comps : comp[c] # "none"}

\* the session of this attempt was active and every component it started
\* has been released
Drained ==
    /\ att.active
    /\ att.drainStart >= 0
    /\ Started # {}
    /\ \A c \in Started : comp[c] = "released"

\* C6: when an active session drains, request_stop() has been called on every
\* component the session started before any of them is released.
C6_StopBeforeRelease ==
    att.active =>
        \A c \in Comps :
            comp[c] = "released" => \A c2 \in Started : reqAt[c2] >= 0

\* a session with every kind of component has drained
C6_Witness ==
    /\ att.active
    /\ \A c \in {CM, COMPOSITOR, Encoder(1), RECORDER, PLAYER} : comp[c] = "released"

\* C7: the time from the end of the heartbeat wait to the release of the last
\* component is at most the longest stop time of a component, not the sum.
C7_DrainTimeIsMax ==
    Drained => time - att.drainStart <= att.maxStop

\* several components needed time to stop and the drain took the longest of
\* their stop times, less than the sum
C7_Witness ==
    /\ Drained
    /\ att.maxStop >= 1
    /\ time - att.drainStart = att.maxStop
    /\ att.slow >= 2

\* the client of this attempt offered a version below the minimum
LowVersion == handshake # NoHandshake /\ handshake.version < BVR_MIN_VERSION_CLIENT

\* C8 as stated: a client below the minimum version never reaches
\* PipelineActive, no worker is started for it, and the orchestrator returns
\* to discovery (the loop does not end on the rejected attempt).
C8_Original ==
    /\ (LowVersion \/ att.rejected) => (~att.active /\ Started = {} /\ pc \notin {"stats", "wait"})
    /\ ~(att.rejected /\ pc = "done")

\* C8 amended: a client below the minimum version never reaches
\* PipelineActive and no worker is started for it; the attempt is aborted and
\* control is back in the connection loop, which starts a new attempt only if
\* the deadline has not been reached and the error branch did not receive a
\* BackendShutdown, and terminates otherwise.
C8_VersionGate ==
    /\ []((LowVersion \/ att.rejected) =>
            /\ ~att.active
            /\ Started = {}
            /\ pc \in {"version", "return", "match", "deinit", "loop", "done"}
            /\ pc # "version" => (att.rejected /\ res = "Err"))
    /\ [][(pc = "version" /\ LowVersion /\ pc' # pc) =>
            (att'.rejected /\ res' = "Err" /\ pc' = "return")]_vars
    /\ [][(att.rejected /\ pc = "match" /\ pc' # pc) =>
            IF bus # <<>> /\ Head(bus) = "BackendShutdown"
            THEN pc' = "done" ELSE pc' = "deinit"]_vars
    /\ [][(att.rejected /\ pc = "loop" /\ pc' # pc) =>
            IF time < deadline THEN pc' = "settings" ELSE pc' = "done"]_vars

\* a rejected attempt is over and the loop is about to start the next one
C8_Witness ==
    /\ att.rejected
    /\ pc = "loop"
    /\ time < deadline

\* C9 as stated: after a session ended with ClientDisconnected the loop goes
\* on until a new client is found or the deadline elapses: if it has
\* terminated with no new client found, the deadline has elapsed.
C9_Original ==
    (pc = "done" /\ env.reconnecting) => ~(time < deadline)

\* C9 amended: ClientDisconnected resets the deadline to now + timeout, and
\* where that sum is no Instant the add of line 259 panics and the thread
\* ends there; after the reset the loop goes on until a new client is found,
\* the deadline elapses, or the error branch of a failed attempt receives a
\* BackendShutdown; at the loop head an elapsed deadline ends the loop and no
\* further attempt starts.
C9_ReconnectDeadline ==
    /\ [][(pc = "match" /\ res = "ClientDisconnected" /\ pc' # pc) =>
            IF env.origin + time + cfgTimeout <= INSTANT_MAX
            THEN deadline' = time + cfgTimeout /\ pc' = "deinit"
            ELSE deadline' = deadline /\ pc' = "panicked"]_vars
    /\ [][pc = "panicked" => pc' = "panicked"]_vars
    /\ []((pc = "done" /\ env.reconnecting) =>
            \/ env.exitBy = "deadline" /\ ~(time < deadline)
            \/ env.exitBy = "BackendShutdown" /\ res = "Err")
    /\ [][(env.reconnecting /\ pc = "loop" /\ pc' # pc) =>
            IF time < deadline THEN pc' = "settings" ELSE pc' = "done"]_vars
    /\ [][(pc = "loop" /\ pc' = "settings") => time < deadline]_vars
    /\ [][pc = "done" => pc' = "done"]_vars

\* after a ClientDisconnected a further attempt found no client and the
\* deadline that was reset has ended the loop
C9_Witness ==
    /\ pc = "done"
    /\ env.reconnecting
    /\ env.exitBy = "deadline"
    /\ env.attempts >= 2
    /\ ~att.active
    /\ res = "Err"

\* C10 as stated: with no client ever discovered the loop retries until the
\* deadline expires: if it has terminated, the deadline has expired.
C10_Original ==
    (pc = "done" /\ env.clients = 0) => ~(time < deadline)

\* C10 amended: with no client ever discovered the loop retries discovery,
\* each search taking at most TIMEOUT, until the deadline expires or the error
\* branch receives a BackendShutdown; it then terminates for good, and it
\* does terminate.
C10_GivesUp ==
    /\ <>(pc = "done")
    /\ [](env.clients = 0)
    /\ [](pc = "done" =>
            \/ env.exitBy = "deadline" /\ ~(time < deadline)
            \/ env.exitBy = "BackendShutdown" /\ res = "Err")
    /\ [][(pc = "loop" /\ pc' # pc) =>
            IF time < deadline THEN pc' = "settings" ELSE pc' = "done"]_vars
    /\ [][(pc = "search" /\ pc' # pc) => time' - time <= TIMEOUT]_vars
    /\ [][pc = "done" => pc' = "done"]_vars

\* no client was ever found, discovery was tried twice and the deadline ended
\* the loop
C10_Witness ==
    /\ pc = "done"
    /\ env.clients = 0
    /\ env.exitBy = "deadline"
    /\ env.attempts >= 2

\* C11: on BackendShutdown the loop exits for good: once the wait of a
\* session has ended with BackendShutdown the attempt only drains, the match
\* on its result ends the loop whatever is left of the deadline, and a loop
\* that has ended starts nothing any more.
C11_BackendShutdownExits ==
    /\ [](res = "BackendShutdown" =>
            pc \in {"notice", "stop", "return", "match", "done"})
    /\ [][(pc = "match" /\ res = "BackendShutdown" /\ pc' # pc) =>
            pc' = "done"]_vars
    /\ [][pc = "done" => (pc' = "done" /\ env'.attempts = env.attempts)]_vars

\* a session ended with BackendShutdown and the loop is over although the
\* deadline has not been reached
C11_Witness ==
    /\ pc = "done"
    /\ att.active
    /\ res = "BackendShutdown"
    /\ env.exitBy = "BackendShutdown"
    /\ time < deadline

\* C12: a bus without producers counts as BackendShutdown: when the wait of
\* an active session finds the bus empty and disconnected it ends with
\* BackendShutdown, the session then drains as for BackendShutdown (shutdown
\* notice, stop requested on every component before any is released), the
\* loop ends and stays ended; the error branch ends the loop likewise.
C12_DisconnectIsShutdown ==
    /\ [][(pc = "wait" /\ bus = <<>> /\ BusDisconnected) =>
            (pc' = "notice" /\ res' = "BackendShutdown")]_vars
    /\ []((res = "BackendShutdown" /\ pc \in {"stop", "return", "match", "done"}) =>
            att.notice # "none")
    /\ []((res = "BackendShutdown" /\ pc \in {"return", "match", "done"}) =>
            \A c \in Started : reqAt[c] >= 0)
    /\ [](res = "BackendShutdown" =>
            pc \in {"notice", "stop", "return", "match", "done"})
    /\ [][(pc = "match" /\ res = "BackendShutdown" /\ pc' # pc) => pc' = "done"]_vars
    /\ [][(pc = "match" /\ res = "Err" /\ bus = <<>> /\ BusDisconnected /\ pc' # pc) =>
            pc' = "done"]_vars
    /\ [][pc = "done" => pc' = "done"]_vars

\* no BackendShutdown was ever sent, the producers went away during a session,
\* the session has drained and the loop is over before its deadline
C12_Witness ==
    /\ pc = "done"
    /\ att.active
    /\ BusDisconnected
    /\ env.signals = 0
    /\ res = "BackendShutdown"
    /\ att.notice # "none"
    /\ \A c \in {CM, COMPOSITOR, Encoder(1)} : comp[c] = "released"
    /\ time < deadline

\* ------------------------------------------- LatestValueChannel (SpecLatest)

\* C13: a recv that returns a value returns the latest value sent so far, so
\* that after sends v1, v2, v3 without a receive in between it returns v3; a
\* value that was replaced is never returned later; a send can always be made
\* and always puts its value into the slot.
C13_LatestValueOnly ==
    /\ [](\A i \in 1..Len(lvc.got) : lvc.got[i].value = lvc.got[i].latest)
    /\ [](\A i, j \in 1..Len(lvc.got) :
            i < j => lvc.got[i].value < lvc.got[j].value)
    /\ [](lvc.sent < MaxSends => ENABLED LvSend)
    /\ [][lvc'.sent # lvc.sent =>
            (lvc'.sent = lvc.sent + 1 /\ lvc'.slot = lvc'.sent)]_vars

\* three values were sent before the first receive, which returned the third
C13_Witness ==
    /\ lvc.sent = 3
    /\ Len(lvc.got) = 1
    /\ lvc.got[1].value = 3
    /\ lvc.got[1].latest = 3
    /\ lvc.slot = NoValue

\* C15: close() wakes every receiver blocked in recv, at once and with the
\* closed result, and every recv called after close returns closed without
\* blocking: never a value, never a wait for the timeout.
C15_CloseWakesAll ==
    /\ \A r \in Receivers :
          (lvc.closed /\ lvc.rx[r].st = "blocked") ~>
              (lvc.rx[r].st = "idle" /\ lvc.rx[r].ret = "closed")
    /\ [][(lvc.closed /\ \E r \in Receivers : lvc.rx[r].st = "blocked") =>
            now' = now]_vars
    /\ [][\A r \in Receivers :
            (lvc.closed /\ lvc'.rx[r] # lvc.rx[r]) =>
                (lvc'.rx[r].st = "idle" /\ lvc'.rx[r].ret = "closed")]_vars
    /\ [][lvc.closed => lvc'.closed]_vars

\* both receivers had been blocked for a while when the channel was closed
\* with a value in its slot: both have returned closed
C15_Witness ==
    /\ lvc.closed
    /\ lvc.slot # NoValue
    /\ \A r \in Receivers :
          /\ lvc.rx[r].st = "idle"
          /\ lvc.rx[r].ret = "closed"
          /\ lvc.rx[r].waited > 0


\* C14: a recv(k) on an open KeyedChannel that holds a sent, unclaimed and
\* unexpired entry with key k returns the value of the oldest such entry in the
\* call itself, whatever entries with other keys are there, and every other
\* sent, unclaimed and unexpired entry is still in the channel after the call.
C14_RecvByKeyImmediately ==
    LET c == kc.last
        fresh == {i \in 1..Len(c.pending) :
                     c.at - c.pending[i].timestamp <= timeout}
        mine == {i \in fresh : c.pending[i].key = c.key}
        first == CHOOSE i \in mine : \A j \in mine : i <= j
    IN  (c.key # NoKey /\ c.immediate # "closed") =>
            /\ mine # {} =>
                /\ c.immediate = "value"
                /\ c.value = c.pending[first].value
            /\ \A i \in fresh :
                (mine = {} \/ i # first) =>
                    \E j \in 1..Len(c.after) : c.after[j] = c.pending[i]

\* C20: a remove_expired call never panics on an index out of range, takes out
\* of the buffer exactly the entries it selected and returns their values.
C20_SweepReconcilesIndices ==
    LET sel == {i \in 0..(Len(last.pre) - 1) :
                   last.pre[i + 1].timestamp > last.at - timeout}
        picked(e) == \E i \in sel : last.pre[i + 1] = e
    IN  last.op = "remove_expired" =>
            /\ ~last.panicked
            /\ buffer = SelectSeq(last.pre, LAMBDA e : ~picked(e))
            /\ Len(last.ret) = Cardinality(sel)

\* C16: the bus changes only by a send, which puts one signal behind all those
\* already sent, or by a receive, which takes the signal sent first and hands
\* exactly that one to the consumer (the heartbeat loop breaks with it, the
\* error branch decides on it): signals are received in the order of their
\* sends, none skipped, none received twice.
C16_BusKeepsSendOrder ==
    [][ \/ bus' = bus
        \/ \E s \in {"ClientDisconnected", "BackendShutdown"} : bus' = Append(bus, s)
        \/ /\ bus # <<>>
           /\ bus' = Tail(bus)
           /\ \/ pc = "wait" /\ pc' = "notice" /\ res' = Head(bus)
              \/ /\ pc = "match"
                 /\ (pc' = "done") = (Head(bus) = "BackendShutdown")
                 /\ pc' = "done" => env'.exitBy = Head(bus)
      ]_vars

\* the callback sent ClientDisconnected, then the backend sent BackendShutdown:
\* the heartbeat loop has received ClientDisconnected, BackendShutdown is next
C16_Witness ==
    /\ pc = "notice"
    /\ res = "ClientDisconnected"
    /\ bus = <<"BackendShutdown">>
    /\ env.signals = 2

\* C18: when try_connect fails during the construction of the pipeline with
\* two or more workers already started, request_stop() has been called on every
\* started worker before any of them is released.
C18_StartupErrorDrains ==
    (~att.active /\ res = "Err" /\ Cardinality(Started) >= 2) =>
        \A c \in Comps :
            comp[c] = "released" => \A c2 \in Started : reqAt[c2] >= 0

\* C19: an error of the setup makes try_connect return Err and nothing else;
\* at the match the loop ends only if the try_recv on the bus gives
\* BackendShutdown or finds the bus disconnected, otherwise it goes on to
\* deinitialize_for_client and to the head of the loop, where a new attempt
\* (settings, discovery) begins unless the deadline has elapsed.
C19_SetupErrorsRecovered ==
    [][ /\ (res' = "Err" /\ res # "Err") => pc' = "return"
        /\ (pc = "return" /\ res = "Err" /\ pc' # pc) => pc' = "match"
        /\ (pc = "match" /\ res = "Err" /\ pc' # pc) =>
              IF \/ bus # <<>> /\ Head(bus) = "BackendShutdown"
                 \/ bus = <<>> /\ env.senders = {}
              THEN pc' = "done" /\ env'.exitBy \in {"BackendShutdown", "Disconnected"}
              ELSE pc' = "deinit"
        /\ (pc = "deinit" /\ res = "Err" /\ pc' # pc) => pc' = "loop"
        /\ (pc = "loop" /\ res = "Err" /\ pc' # pc) =>
              IF time < deadline
              THEN pc' = "settings"
              ELSE pc' = "done" /\ env'.exitBy = "deadline"
      ]_vars

\* the first attempt ended in an error and the loop is in its second attempt,
\* about to search for a client again
C19_Witness ==
    /\ pc = "search"
    /\ env.attempts = 2
    /\ ~env.reconnecting
    /\ env.exitBy = "none"

C22_TimestampsOrdered ==
    \A i, j \in 1..Len(buffer) :
        i < j => buffer[i].timestamp <= buffer[j].timestamp

\* a call has taken an entry out of a buffer with entries of different
\* timestamps, and entries of different timestamps are left
C22_Witness ==
    /\ last.op \in {"remove", "remove_any", "remove_expired"}
    /\ last.some
    /\ Len(last.pre) > Len(buffer)
    /\ Len(buffer) >= 2
    /\ buffer[1].timestamp < buffer[Len(buffer)].timestamp

\* C30: remove(key) changes nothing but the entry it removes: the buffer after
\* the call is the buffer before it without the entry whose value was returned,
\* every other entry with its key, value and timestamp in its place in the
\* order, and without a match the buffer is as it was.
C30_RemoveFrame ==
    last.op = "remove" =>
        IF last.some
        THEN /\ Len(last.ret) = 1
             /\ Len(buffer) = Len(last.pre) - 1
             /\ buffer = SelectSeq(last.pre, LAMBDA e : e.value # last.ret[1])
        ELSE buffer = last.pre

\* remove(key) has taken the entry in the middle of three
C30_Witness ==
    /\ last.op = "remove"
    /\ last.some
    /\ Len(last.pre) = 3
    /\ last.pre[2].value = last.ret[1]
    /\ last.pre[1].key # last.key

\* ------------------------------------------ connection loop, further claims

\* C23: in a session that ends with BackendShutdown the shutdown notice has
\* been attempted (sent, or failed and only logged) before request_stop() is
\* called on any component; a failed notice leaves the drain as it is: every
\* started component gets its request_stop() and try_connect returns; a session
\* that ends with ClientDisconnected attempts no notice.
C23_NoticeBeforeStop ==
    att.active =>
        /\ (\E c \in Comps : reqAt[c] >= 0) =>
              /\ res = "BackendShutdown" => att.notice \in {"sent", "failed"}
              /\ res = "ClientDisconnected" => att.notice = "none"
        /\ att.notice # "none" => res = "BackendShutdown"
        /\ pc = "stop" => (res = "BackendShutdown") = (att.notice # "none")
        /\ (att.drainStart >= 0 /\ pc \in {"return", "match", "deinit", "loop", "done"}) =>
              \A c \in Started : reqAt[c] >= 0
        /\ (att.drainStart >= 0 /\ pc \in {"match", "deinit", "loop", "done"}) =>
              \A c \in Started : (c # CM \/ ~backend.holdsCm) => comp[c] = "released"

\* the notice of a session with several components failed, and the session
\* has drained all the same
C23_Witness ==
    /\ att.active
    /\ res = "BackendShutdown"
    /\ att.notice = "failed"
    /\ pc = "match"
    /\ Cardinality(Started) >= 2
    /\ \A c \in Started : reqAt[c] >= 0 /\ comp[c] = "released"

\* C24: while a session is active (heartbeat loop and drain, up to the return
\* of try_connect) the session record holds the handshake of the client of
\* this session, and in every attempt the save of the record was attempted
\* before the first component was started.
C24_SessionRecordRewritten ==
    /\ (att.active /\ handshake # NoHandshake) =>
          /\ env.session = handshake
          /\ att.saved = "attempted"
    /\ pc \in {"stats", "wait"} => handshake # NoHandshake /\ att.active
    /\ Started # {} => att.saved = "attempted"
    /\ att.saved = "attempted" => env.session.client = env.clients

\* the session of the second client is active, the record holds its handshake
C24_Witness ==
    /\ pc = "wait"
    /\ handshake.client = 2
    /\ env.session = handshake
    /\ Started # {}

\* C25: every wait on the bus is entered from log_statistics(), which has
\* emitted the statistics of the pass once and is the only step that does;
\* the session leaves the heartbeat loop only with a signal received from the
\* bus, which becomes the result of the session, or with BackendShutdown on a
\* bus found empty and disconnected, and then goes on to the drain; a wait
\* that finds the bus empty and connected runs into its timeout, takes the
\* poll interval and begins the next pass with nothing else changed.
C25_HeartbeatLeavesOnSignal ==
    /\ [](pc = "wait" => att.logged)
    /\ [](pc = "stats" => ~att.logged /\ att.active)
    /\ [][ /\ (pc' = "wait" /\ pc # "wait") => (pc = "stats" /\ att'.logged)
           /\ (att'.logged /\ ~att.logged) => (pc = "stats" /\ pc' = "wait")
           /\ (pc = "stats" /\ pc' # pc) =>
                 /\ pc' = "wait"
                 /\ UNCHANGED <<time, res, bus, comp, reqAt, deadline, backend>>
           /\ (pc = "wait" /\ pc' # pc) =>
                 \/ /\ pc' = "notice"
                    /\ \/ bus # <<>> /\ res' = Head(bus) /\ bus' = Tail(bus)
                       \/ bus = <<>> /\ env.senders = {} /\ res' = "BackendShutdown"
                 \/ /\ pc' = "stats"
                    /\ bus = <<>> /\ env.senders # {}
                    /\ att'.beats = att.beats + 1
                    /\ time' = time + STATISTICS_INTERVAL
                    /\ UNCHANGED <<res, bus, comp, reqAt, deadline, backend>>
           /\ (pc \in {"notice", "stop"}) =>
                 res \in {"ClientDisconnected", "BackendShutdown"}
         ]_vars

\* a wait on the bus has timed out, the statistics have been emitted again
\* and the session is in the next wait of its heartbeat loop with all its
\* components running
C25_Witness ==
    /\ pc = "wait"
    /\ att.logged
    /\ att.beats >= 1
    /\ time >= STATISTICS_INTERVAL
    /\ res = "none"
    /\ \A c \in Started : comp[c] = "running" /\ reqAt[c] < 0

\* ----------------------------------------------- entry point (SpecFactory)

\* C26: with an EmptySystem created, no call of HmdDriverFactory, the first or
\* a later one, panics on the unwrap of the stored receiver.
C26_ReceiverUnwrapSafe ==
    sys.created => ~sys.panicked

\* ------------------------------------------- signals on the bus (Spec)

\* C27: a session whose heartbeat loop has just ended with ClientDisconnected
\* received a signal that was sent during this attempt: no signal of an
\* earlier attempt was still on the bus when the connection of this attempt
\* was made.
C27_NoStaleDisconnect ==
    (pc = "notice" /\ res = "ClientDisconnected") => ~att.stale

\* C28: the backend does not stay initialized for a client beyond the attempt
\* that initialized it: it has been deinitialized when the next attempt reads
\* its settings (first or second read) and searches for a client, and when
\* the loop has ended, by a break, at the deadline or by the panic of line 259.
C28_DeinitAfterEveryAttempt ==
    pc \in {"settings", "settings_retry", "search", "done", "panicked"} => ~backend.init

\* C29 as stated: a BackendShutdown sent while no session is active is
\* consumed by the orchestrator and ends the loop: a loop that has ended with
\* a BackendShutdown sent to it has ended by receiving one.
C29_Original ==
    (pc = "done" /\ \E i \in 1..Len(bus) : bus[i] = "BackendShutdown")
        => env.exitBy = "BackendShutdown"

\* C29 amended: a BackendShutdown sent while no session is active stays on
\* the bus, behind any older signal, until a receive takes it from the head of
\* the bus: the try_recv of the error branch (line 263), which ends the loop
\* at once, or, when a client has come back, the recv_timeout of the session
\* (line 212), which ends the wait with BackendShutdown.  The thread ends for
\* good in any case: by such a receive, at the deadline check (line 257) when
\* the deadline passes first, and then the BackendShutdown is never received,
\* or by the panic of line 165.
C29_ShutdownEndsLoop ==
    /\ [][bus' # bus =>
            \/ \E s \in {"ClientDisconnected", "BackendShutdown"} :
                  bus' = Append(bus, s)
            \/ /\ bus # <<>>
               /\ bus' = Tail(bus)
               /\ (Head(bus) = "BackendShutdown" =>
                     \/ pc = "match" /\ res = "Err" /\ pc' = "done"
                           /\ env'.exitBy = "BackendShutdown"
                     \/ pc = "wait" /\ pc' = "notice"
                           /\ res' = "BackendShutdown")]_vars
    /\ [](pc = "done" => env.exitBy \in {"BackendShutdown", "deadline"})
    /\ ((\E i \in 1..Len(bus) : bus[i] = "BackendShutdown")
            ~> (pc \in {"done", "panicked"}))
    /\ [][(pc \in {"done", "panicked"}) => (pc' = pc)]_vars

\* between two sessions a BackendShutdown has been sent behind an older
\* ClientDisconnected that is still on the bus, the attempt has failed and the
\* error branch is about to take the older signal with try_recv
C29_Witness ==
    /\ pc = "match"
    /\ res = "Err"
    /\ bus = <<"ClientDisconnected", "BackendShutdown">>
    /\ env.signals = MaxSignals
    /\ env.reconnecting
====
